---- MODULE Spec2Model ----
(***************************************************************************)
(* State-machine model of the RV thermostat sketch                         *)
(* src/Latest_worrking_heater/Latest_worrking_heater.ino.                  *)
(*                                                                         *)
(* One behaviour is a sequence of boots.  Each boot runs setup() once and  *)
(* then loop() for ever; one loop() iteration is the four steps            *)
(* handleButtons, the BOOT-button check, server.handleClient and the       *)
(* timed body (auto sleep, sensor seeding, sampling, heater control).      *)
(*                                                                         *)
(* Times are milliseconds.  The sketch reads each of its timestamps T      *)
(* only in the difference millis() - T, so the model keeps that            *)
(* difference (sinceT) instead of T and millis(): setting T to now sets    *)
(* sinceT to 0, and time passing adds to every sinceT.  A difference stops *)
(* counting at the largest threshold it is compared with.                  *)
(*                                                                         *)
(* Temperatures and humidities are fixed-point numbers in hundredths       *)
(* (Deg(72) is 72.00); NaN is a reserved value.                            *)
(***************************************************************************)
EXTENDS Integers, Sequences, FiniteSets, TLC

\* ------------------------------------------------------------- bounds
\* Spec: button level changes, web requests, and loop() iterations
\* explored after the last of either
MaxEdges == 2
MaxReq == 2
MaxInputs == 3
MaxQuiet == 4
\* restarts explored after the first boot
MaxBoots == 1
\* SpecHeat: loop() iterations of a boot, and web requests
MaxHeatTicks == 6
MaxHeatReq == 2
\* SpecButtons: button level changes, loop() iterations after the last of
\* them, and web requests that put the display to sleep
MaxPressEdges == 3
MaxHoldQuiet == 6
MaxSleepReq == 1
\* SpecHold: button level changes, and loop() iterations followed after the
\* last change while a button is released
MaxHoldEdges == 2
MaxIdle == 6
\* SpecBoot: restarts, web requests, button level changes (BOOT button
\* included), and loop() iterations after the last input
MaxRestarts == 1
MaxBootReq == 1
MaxBootEdges == 2
MaxBootQuiet == 2
\* SpecSensor: loop() iterations of a boot, and telemetry requests
MaxSensorTicks == 5
MaxSensorReq == 2
\* SpecSleep: button level changes, web requests, and the loop() iterations
\* after a boot or an input within which the next input arrives, unless it
\* arrives after the inactivity timeout
MaxNapEdges == 2
MaxNapReq == 1
MaxNapQuiet == 0
\* SpecWake: inputs (a button level change counts one, a web request that
\* puts the display to sleep two), and loop() iterations after the last
\* input
MaxWakeInputs == 6
MaxWakeQuiet == 3

\* ------------------------------------------------- program constants
HIGH == TRUE
LOW == FALSE
Deg(n) == n * 100
NaN == -1000000
SAMPLES == 10
SSID_START == 0
PASS_START == 32
SSID_MAX_LENGTH == 32
PASS_MAX_LENGTH == 64
FREEZE_GUARD_ADDR == 96
SENSOR_READ_INTERVAL == 2000
LONG_PRESS_MS == 1000
WIFI_RESET_MS == 5000
SLEEP_PRESS_MS == 2000
DISPLAY_TIMEOUT == 300000
FREEZE_GUARD_TEMP == Deg(38)
FREEZE_RELEASE_TEMP == FREEZE_GUARD_TEMP + Deg(2)
TARGET_MIN == Deg(50)
TARGET_MAX == Deg(90)
TARGET_DEFAULT == Deg(72)
MAX_ATTEMPTS == 30
ATTEMPT_DELAY == 500
WAKE_DELAY == 250
SLEEP_DELAY == 250
BUTTON_RESET_DELAY == 1000
BOOT_BUTTON_DELAY == 50
WEB_RESTART_DELAY == 2000
SENSOR_INIT_DELAY == 8000
BRIGHTNESS_DEFAULT == 255

\* ------------------------------------------------------------ inputs
\* duration of one loop() iteration without its blocking delays
LoopTimes == {500}
Levels == {HIGH, LOW}
\* sensor readings, degrees Celsius in hundredths, and relative humidity
TempInputs == {Deg(25)}
HumInputs == {Deg(40)}
\* the "temp" argument of /target, degrees
TargetArgs == {-1, 1, -25, 25}
\* the "value" argument of /brightness, in tenths
BrightnessArgs == {0, 10}
\* identity strings, as byte sequences
NoString == << >>
HomeSSID == <<104, 111, 109, 101>>
HomePass == <<115, 51>>
\* number of 500 ms waits after which WiFi.status() reports WL_CONNECTED
ConnectImmediately == 0
ConnectNever == MAX_ATTEMPTS + 1
ConnectDelays == {ConnectImmediately, ConnectNever}

VARIABLES
  pc,                 \* position: "setup" or a step of loop()
  \* bookkeeping of the exploration, kept by the specifications
  boots,              \* restarts so far
  reqs,               \* web requests served so far
  edges,              \* button level changes so far
  quiet,              \* loop() iterations since the last edge or request
  ticks,              \* loop() iterations of this boot
  eeprom,             \* byte-addressed persisted store
  setupMode, storedSSID, storedPassword,
  freezeGuardEnabled, heaterEnabled, targetTemp,
  currentTemp, humidity, tempReadings, humReadings, readIndex,
  sensorInit,
  sinceLastRead,      \* millis() - lastRead
  heaterPin,          \* level of HEATER_PIN
  heaterOutput,       \* pinMode(HEATER_PIN, OUTPUT) has run
  serverBegun,        \* server.begin() has run
  displaySleepMode, displayBrightness,
  sinceActivity,      \* millis() - lastActivityTime
  sinceUpStart,       \* millis() - upButtonStart
  sinceDownStart,     \* millis() - downButtonStart
  lastUpState, lastDownState, longPressHandled,
  \* history of the physical inputs and of what the handlers did
  upLevel, downLevel, bootLevel, \* levels read by the last poll
  upHeld, downHeld,           \* time since the poll that first read LOW
  upLongCount, downLongCount, \* long-press actions run in the current hold, this boot
  dualSleepCount,             \* dual-button sleeps in the current dual hold
  fgEntry,                    \* <<heaterEnabled, targetTemp>> when the regime became FreezeGuard
  evaluated,                  \* the last step ran the heater control block
  last,                       \* the command the last step served, and the settings it found
  upWake, downWake,           \* the current (or last) hold of the button woke the display
  booted,                      \* how setup() of this boot went
  cause,                      \* what caused the last restart
  validSeen,                  \* a read of this boot returned a temperature
  fgCommanded,                \* the regime last commanded
  armedBefore,                \* heaterEnabled when the last restart was called
  announced,                  \* the state-change message the last step raised
  sample,                     \* the readings of the last step, if it sampled
  dualTick                    \* both buttons are held since one and the same poll

ramVars == <<setupMode, storedSSID, storedPassword, freezeGuardEnabled,
             heaterEnabled, targetTemp, currentTemp, humidity, tempReadings,
             humReadings, readIndex, sensorInit, sinceLastRead, heaterPin,
             displaySleepMode, displayBrightness, sinceActivity,
             sinceUpStart, sinceDownStart, lastUpState, lastDownState,
             longPressHandled, heaterOutput, serverBegun>>
histVars == <<upLevel, downLevel, bootLevel, upHeld, downHeld,
              upLongCount, downLongCount, dualSleepCount, fgEntry, evaluated,
              last, upWake, downWake, booted, cause, validSeen, fgCommanded,
              armedBefore, announced, sample, dualTick>>
budgetVars == <<boots, reqs, edges, quiet, ticks>>
vars == <<pc, budgetVars, eeprom, ramVars, histVars>>

\* ------------------------------------------------------- elapsed times
Min(a, b) == IF a < b THEN a ELSE b
\* a difference millis() - T after d more milliseconds
Later(since, d, cap) == Min(since + d, cap)
ButtonCap == WIFI_RESET_MS
ReadCap == SENSOR_READ_INTERVAL
ActivityCap == DISPLAY_TIMEOUT + 1

\* ------------------------------------------------------- float helpers
IsNaN(x) == x = NaN
FLt(a, b) == ~IsNaN(a) /\ ~IsNaN(b) /\ a < b
FGe(a, b) == ~IsNaN(a) /\ ~IsNaN(b) /\ a >= b
FAdd(a, b) == IF IsNaN(a) \/ IsNaN(b) THEN NaN ELSE a + b
FMin(a, b) == IF FLt(b, a) THEN b ELSE a
FMax(a, b) == IF FLt(a, b) THEN b ELSE a
\* bme.readTemperature() * 9/5 + 32
ToFahrenheit(c) == IF IsNaN(c) THEN NaN ELSE (c * 9) \div 5 + Deg(32)
\* String(x, 1): one decimal, rounded
Tenths(x) == IF x >= 0 THEN (x + 5) \div 10 ELSE -((5 - x) \div 10)
RECURSIVE SumTo(_, _)
\* the loop "sum += buf[i]" over the first n cells
SumTo(buf, n) == IF n = 0 THEN 0 ELSE SumTo(buf, n - 1) + buf[n - 1]
\* sum / SAMPLES over the whole buffer; a NaN cell makes the sum NaN
Average(buf) ==
  IF \E i \in 0 .. SAMPLES - 1 : IsNaN(buf[i]) THEN NaN
  ELSE SumTo(buf, SAMPLES) \div SAMPLES

\* -------------------------------------------------------------- EEPROM
EepromAddrs == 0 .. FREEZE_GUARD_ADDR
BlankEeprom == [a \in EepromAddrs |-> 0]
CharAt(s, i) == IF i < Len(s) THEN s[i + 1] ELSE 0
\* a save that keeps the last cell of each field for a terminator
SaveTerminated(e, ssid, password) ==
  [a \in EepromAddrs |->
     IF a >= SSID_START /\ a < SSID_START + SSID_MAX_LENGTH - 1
       THEN CharAt(ssid, a - SSID_START)
     ELSE IF a >= PASS_START /\ a < PASS_START + PASS_MAX_LENGTH - 1
       THEN CharAt(password, a - PASS_START)
     ELSE IF a < FREEZE_GUARD_ADDR THEN 0
     ELSE e[a]]
\* a save whose second loop runs one cell too far
SaveOverrun(e, ssid, password) ==
  [a \in EepromAddrs |->
     IF a >= SSID_START /\ a < SSID_START + SSID_MAX_LENGTH
       THEN CharAt(ssid, a - SSID_START)
     ELSE IF a >= PASS_START /\ a <= PASS_START + PASS_MAX_LENGTH
       THEN CharAt(password, a - PASS_START)
     ELSE e[a]]
\* saveWiFiCredentials(ssid, password)
saveWiFiCredentials(e, ssid, password) ==
  [a \in EepromAddrs |->
     IF a >= SSID_START /\ a < SSID_START + SSID_MAX_LENGTH
       THEN CharAt(ssid, a - SSID_START)
     ELSE IF a >= PASS_START /\ a < PASS_START + PASS_MAX_LENGTH
       THEN CharAt(password, a - PASS_START)
     ELSE e[a]]
\* a factory reset that leaves the identity in place
EraseNothing(e) == e
\* saveWiFiCredentials("", ""), the factory reset
EraseIdentity(e) == saveWiFiCredentials(e, NoString, NoString)
\* the loops of loadWiFiCredentials(): the non-zero bytes of n cells, in order
IsChar(c) == c # 0
ReadString(e, start, n) ==
  SelectSeq([i \in 1 .. n |-> e[start + i - 1]], IsChar)
\* loadWiFiCredentials(): storedSSID, storedPassword
loadSSID(e) == ReadString(e, SSID_START, SSID_MAX_LENGTH)
loadPassword(e) == ReadString(e, PASS_START, PASS_MAX_LENGTH)
\* a save that does not write the flag
SaveNoFlag(e, enabled) == e
\* saveFreezeGuardState(enabled)
saveFreezeGuardState(e, enabled) ==
  [e EXCEPT ![FREEZE_GUARD_ADDR] = IF enabled THEN 1 ELSE 0]
\* loadFreezeGuardState()
loadFreezeGuardState(e) == e[FREEZE_GUARD_ADDR] = 1

\* ------------------------------------------------------ initial state
\* the globals as their initialisers leave them (lines 75-126, 320-321)
RamInit ==
  /\ setupMode = FALSE
  /\ storedSSID = NoString
  /\ storedPassword = NoString
  /\ freezeGuardEnabled = FALSE
  /\ heaterEnabled = FALSE
  /\ targetTemp = TARGET_DEFAULT
  /\ currentTemp = 0
  /\ humidity = 0
  /\ tempReadings = [i \in 0 .. SAMPLES - 1 |-> 0]
  /\ humReadings = [i \in 0 .. SAMPLES - 1 |-> 0]
  /\ readIndex = 0
  /\ sensorInit = TRUE
  /\ sinceLastRead = 0
  /\ heaterPin = LOW
  /\ displaySleepMode = FALSE
  /\ displayBrightness = BRIGHTNESS_DEFAULT
  /\ sinceActivity = 0
  /\ sinceUpStart = 0
  /\ sinceDownStart = 0
  /\ lastUpState = HIGH
  /\ lastDownState = HIGH
  /\ longPressHandled = FALSE
  /\ heaterOutput = FALSE
  /\ serverBegun = FALSE

\* a request: the route, whether server.authenticate() accepts it, whether
\* it carries the handler's argument(s), and their values
Req(kind, auth, hasArg, num, ssid, pass) ==
  [kind |-> kind, auth |-> auth, hasArg |-> hasArg, num |-> num,
   ssid |-> ssid, pass |-> pass]
NoRequest == Req("none", TRUE, FALSE, 0, NoString, NoString)

\* the settings a handler finds when it starts
Settings(target, armed, pin, fg) ==
  [targetTemp |-> target, heaterEnabled |-> armed, heaterPin |-> pin,
   freezeGuardEnabled |-> fg]
\* what a step served: a web request (and whether it passed the routing
\* and the authentication), or the gestures handleButtons() recognised,
\* with the settings before it
Command(step, req, served, upShort, downShort, upLong, downLong, pre) ==
  [step |-> step, req |-> req, served |-> served,
   upShort |-> upShort, downShort |-> downShort,
   upLong |-> upLong, downLong |-> downLong, pre |-> pre]
NoCommand ==
  Command("none", NoRequest, FALSE, FALSE, FALSE, FALSE, FALSE,
          Settings(TARGET_DEFAULT, FALSE, LOW, FALSE))

\* how a run of setup() went: whether display.begin() at line 206
\* succeeded, the waits of the retry loop, and WiFi.status() at line 254
BootRun(display, attempts, linked) ==
  [display |-> display, attempts |-> attempts, linked |-> linked]
NoBootRun == BootRun(TRUE, 0, FALSE)
\* what caused a restart, with the identity a submission carried
Cause(why, ssid, pass) == [why |-> why, ssid |-> ssid, pass |-> pass]
NoCause == Cause("none", NoString, NoString)
ResetCauses == {"webreset", "bootbutton", "dualhold"}

\* a state-change announcement: what a handler leaves in
\* stateChangeMessage when it sets showingStateChange and stateChangeTime;
\* the target is printed with one decimal and the letter F
StateChange(text, tenths) == [text |-> text, tenths |-> tenths]
NoMessage == StateChange("", 0)
TargetMessage(t) == StateChange("F", Tenths(t))
HeatMessage(armed) == StateChange(IF armed THEN "HEAT ON" ELSE "HEATOFF", 0)
GuardMessage(fg) == StateChange(IF fg THEN "GRD ON" ELSE "GRD OFF", 0)
\* the two reads of a sampling tick: readTemperature(), readHumidity()
Sample(taken, t, h) == [taken |-> taken, t |-> t, h |-> h]
NoSample == Sample(FALSE, 0, 0)

HistInit ==
  /\ upLevel = HIGH
  /\ downLevel = HIGH
  /\ bootLevel = HIGH
  /\ upHeld = 0
  /\ downHeld = 0
  /\ upLongCount = 0
  /\ downLongCount = 0
  /\ dualSleepCount = 0
  /\ fgEntry = <<FALSE, TARGET_DEFAULT>>
  /\ evaluated = FALSE
  /\ last = NoCommand
  /\ upWake = FALSE
  /\ downWake = FALSE
  /\ booted = NoBootRun
  /\ cause = NoCause
  /\ validSeen = FALSE
  /\ fgCommanded = loadFreezeGuardState(eeprom)
  /\ armedBefore = FALSE
  /\ announced = NoMessage
  /\ sample = NoSample
  /\ dualTick = FALSE

InitialEeproms ==
  {BlankEeprom, saveWiFiCredentials(BlankEeprom, HomeSSID, HomePass)}

Init ==
  /\ pc = "setup"
  /\ boots = 0
  /\ reqs = 0
  /\ edges = 0
  /\ quiet = 0
  /\ ticks = 0
  /\ eeprom \in InitialEeproms
  /\ RamInit
  /\ HistInit

\* ------------------------------------------------------------ restart
\* time since the first LOW poll of a button, d milliseconds later
HeldLater(level, held, d) ==
  IF level = HIGH THEN 0 ELSE Later(held, d, ButtonCap)

\* ESP.restart(): RAM, millis(), the pin modes and the web server start
\* over; the EEPROM, the physical buttons and the history of the current
\* holds stay as they are
Restart(e, why) ==
  /\ pc' = "setup"
  /\ cause' = why
  /\ heaterOutput' = FALSE
  /\ serverBegun' = FALSE
  /\ validSeen' = FALSE
  /\ eeprom' = e
  /\ setupMode' = FALSE
  /\ storedSSID' = NoString
  /\ storedPassword' = NoString
  /\ freezeGuardEnabled' = FALSE
  /\ heaterEnabled' = FALSE
  /\ targetTemp' = TARGET_DEFAULT
  /\ currentTemp' = 0
  /\ humidity' = 0
  /\ tempReadings' = [i \in 0 .. SAMPLES - 1 |-> 0]
  /\ humReadings' = [i \in 0 .. SAMPLES - 1 |-> 0]
  /\ readIndex' = 0
  /\ sensorInit' = TRUE
  /\ sinceLastRead' = 0
  /\ heaterPin' = LOW
  /\ displaySleepMode' = FALSE
  /\ displayBrightness' = BRIGHTNESS_DEFAULT
  /\ sinceActivity' = 0
  /\ sinceUpStart' = 0
  /\ sinceDownStart' = 0
  /\ lastUpState' = HIGH
  /\ lastDownState' = HIGH
  /\ longPressHandled' = FALSE
  /\ fgEntry' = <<FALSE, TARGET_DEFAULT>>
  /\ evaluated' = FALSE
  /\ sample' = NoSample

\* -------------------------------------------------------------- setup()
\* the retry loop: attempts made when the link comes up after `after` waits
Attempts(after) == IF after < MAX_ATTEMPTS THEN after ELSE MAX_ATTEMPTS
Connected(after) == after <= MAX_ATTEMPTS
\* a mode decision without the fallback
BootNoFallback(ssid, after) == Len(ssid) < 2
\* the mode decision of setup(): TRUE is enterSetupMode, FALSE setupNormalMode
BootSetupMode(ssid, after) ==
  IF Len(ssid) < 2 THEN TRUE ELSE ~Connected(after)

\* setup() with the sensor found; displayOk is the result of
\* display.begin() at line 206, after which setup() returns when it failed
Setup(after, displayOk) ==
  /\ pc = "setup"
  /\ pc' = "handleButtons"
  /\ last' = NoCommand
  /\ announced' = NoMessage
  /\ IF displayOk
       THEN LET ssid == loadSSID(eeprom)
                d == IF Len(ssid) < 2 THEN 0
                     ELSE ATTEMPT_DELAY * Attempts(after)
            IN  /\ heaterOutput' = TRUE
                /\ heaterPin' = LOW
                /\ freezeGuardEnabled' = loadFreezeGuardState(eeprom)
                /\ storedSSID' = ssid
                /\ storedPassword' = loadPassword(eeprom)
                /\ setupMode' = BootSetupMode(ssid, after)
                /\ serverBegun' = TRUE
                /\ booted' = IF Len(ssid) < 2 THEN BootRun(TRUE, 0, FALSE)
                             ELSE BootRun(TRUE, Attempts(after), Connected(after))
                /\ sinceLastRead' = Later(sinceLastRead, d, ReadCap)
                /\ sinceActivity' = Later(sinceActivity, d, ActivityCap)
                /\ sinceUpStart' = Later(sinceUpStart, d, ButtonCap)
                /\ sinceDownStart' = Later(sinceDownStart, d, ButtonCap)
                /\ upHeld' = HeldLater(upLevel, upHeld, d)
                /\ downHeld' = HeldLater(downLevel, downHeld, d)
       ELSE /\ booted' = BootRun(FALSE, 0, FALSE)
            /\ UNCHANGED <<heaterOutput, heaterPin, freezeGuardEnabled,
                           storedSSID, storedPassword, setupMode, serverBegun,
                           sinceLastRead, sinceActivity, sinceUpStart,
                           sinceDownStart, upHeld, downHeld>>
  /\ UNCHANGED <<eeprom, heaterEnabled, targetTemp,
                 currentTemp, humidity, tempReadings, humReadings, readIndex,
                 sensorInit, displaySleepMode, displayBrightness,
                 lastUpState, lastDownState, longPressHandled,
                 upLevel, downLevel, bootLevel, upLongCount, downLongCount,
                 dualSleepCount, fgEntry, evaluated, upWake, downWake,
                 cause, validSeen, fgCommanded, armedBefore, sample,
                 dualTick>>

\* ------------------------------------------------------ handleButtons()
\* short press of Up: min(90.0, targetTemp + 1.0)
UpShortTarget(t) == FMin(TARGET_MAX, FAdd(t, Deg(1)))
\* short press of Down: max(50.0, targetTemp - 1.0)
DownShortTarget(t) == FMax(TARGET_MIN, FAdd(t, -Deg(1)))
\* a sleep window that never closes
InSleepWindowOpen(upElapsed, downElapsed) ==
  /\ upElapsed >= SLEEP_PRESS_MS
  /\ downElapsed >= SLEEP_PRESS_MS
\* the classification thresholds
IsShortPress(elapsed) == elapsed < LONG_PRESS_MS
IsLongPress(elapsed) == elapsed >= LONG_PRESS_MS
InSleepWindow(upElapsed, downElapsed) ==
  /\ upElapsed >= SLEEP_PRESS_MS
  /\ downElapsed >= SLEEP_PRESS_MS
  /\ upElapsed < WIFI_RESET_MS
InResetWindow(upElapsed, downElapsed) ==
  /\ upElapsed >= WIFI_RESET_MS
  /\ downElapsed >= WIFI_RESET_MS
\* a toggle that does not look at the regime
ToggleAlways(fg) == TRUE
\* the guard of the manual arm toggle (button long press and /toggle)
ToggleAllowed(fg) == ~fg
\* the guard of the button target adjustment
ButtonTargetAllowed(fg) == ~fg

\* what one call of handleButtons() does with the levels it reads: the
\* values it leaves in the globals (timestamps as millis() - T at the
\* time of the call), the time it blocks, how it ends
handleButtons(up, down) ==
  LET pressed == up = LOW \/ down = LOW
      same == [sinceActivity |-> IF pressed THEN 0 ELSE sinceActivity,
               displaySleepMode |-> displaySleepMode,
               sinceUpStart |-> sinceUpStart,
               sinceDownStart |-> sinceDownStart,
               lastUpState |-> lastUpState,
               lastDownState |-> lastDownState,
               longPressHandled |-> longPressHandled,
               targetTemp |-> targetTemp,
               heaterEnabled |-> heaterEnabled,
               heaterPin |-> heaterPin,
               freezeGuardEnabled |-> freezeGuardEnabled,
               eeprom |-> eeprom,
               delay |-> 0, restart |-> FALSE,
               upShort |-> FALSE, downShort |-> FALSE,
               upLong |-> FALSE, downLong |-> FALSE,
               slept |-> FALSE, woke |-> FALSE,
               announce |-> NoMessage]
      \* UP button handler
      upPressed == up # lastUpState /\ up = LOW
      upReleased == up # lastUpState /\ up = HIGH
      upElapsed == IF upPressed THEN 0 ELSE sinceUpStart
      lph1 == IF upPressed THEN FALSE ELSE longPressHandled
      upShort == upReleased /\ IsShortPress(sinceUpStart)
      target1 == IF upShort /\ ButtonTargetAllowed(freezeGuardEnabled)
                   THEN UpShortTarget(targetTemp) ELSE targetTemp
      \* UP long press check
      upLong == up = LOW /\ ~lph1 /\ IsLongPress(upElapsed)
      upToggle == upLong /\ ToggleAllowed(freezeGuardEnabled)
      armed1 == IF upToggle THEN ~heaterEnabled ELSE heaterEnabled
      pin1 == IF upToggle THEN (IF armed1 THEN HIGH ELSE LOW) ELSE heaterPin
      lph2 == IF upLong THEN TRUE ELSE lph1
      msg1 == IF upShort /\ ButtonTargetAllowed(freezeGuardEnabled)
                THEN TargetMessage(target1) ELSE NoMessage
      msg2 == IF upToggle THEN HeatMessage(armed1) ELSE msg1
      \* DOWN button handler
      downPressed == down # lastDownState /\ down = LOW
      downReleased == down # lastDownState /\ down = HIGH
      downElapsed == IF downPressed THEN 0 ELSE sinceDownStart
      lph3 == IF downPressed THEN FALSE ELSE lph2
      downShort == downReleased /\ IsShortPress(sinceDownStart)
      target2 == IF downShort /\ ButtonTargetAllowed(freezeGuardEnabled)
                   THEN DownShortTarget(target1) ELSE target1
      \* DOWN long press check
      downLong == down = LOW /\ ~lph3 /\ IsLongPress(downElapsed)
      fg1 == IF downLong THEN ~freezeGuardEnabled ELSE freezeGuardEnabled
      eeprom1 == IF downLong THEN saveFreezeGuardState(eeprom, fg1) ELSE eeprom
      lph4 == IF downLong THEN TRUE ELSE lph3
      msg3 == IF downShort /\ ButtonTargetAllowed(freezeGuardEnabled)
                THEN TargetMessage(target2) ELSE msg2
      msg4 == IF downLong THEN GuardMessage(fg1) ELSE msg3
      \* both buttons
      both == up = LOW /\ down = LOW
      sleepNow == both /\ InSleepWindow(upElapsed, downElapsed)
      resetNow == both /\ InResetWindow(upElapsed, downElapsed)
      regular == [same EXCEPT
                    !.sinceUpStart = upElapsed,
                    !.sinceDownStart = downElapsed,
                    !.lastUpState = up,
                    !.lastDownState = down,
                    !.longPressHandled = lph4,
                    !.targetTemp = target2,
                    !.heaterEnabled = armed1,
                    !.heaterPin = pin1,
                    !.freezeGuardEnabled = fg1,
                    !.eeprom = eeprom1,
                    !.upShort = upShort,
                    !.downShort = downShort,
                    !.upLong = upLong,
                    !.downLong = downLong,
                    !.announce = msg4]
  IN  IF displaySleepMode /\ pressed
        THEN [same EXCEPT !.displaySleepMode = FALSE,
                          !.delay = WAKE_DELAY,
                          !.woke = TRUE,
                          !.announce = StateChange("WAKE", 0)]
      ELSE IF displaySleepMode
        THEN same
      ELSE IF sleepNow
        THEN [regular EXCEPT !.displaySleepMode = TRUE,
                             !.delay = SLEEP_DELAY,
                             !.slept = TRUE,
                             !.announce = StateChange("SLEEP", 0)]
      ELSE IF resetNow
        THEN [regular EXCEPT !.delay = BUTTON_RESET_DELAY,
                             !.eeprom = EraseIdentity(eeprom1),
                             !.restart = TRUE,
                             !.announce = StateChange("RESET", 0)]
      ELSE regular

Bump(n, b) == IF b THEN (IF n < 2 THEN n + 1 ELSE 2) ELSE n
Changes(a, b) == IF a = b THEN 0 ELSE 1

\* one call of handleButtons(), the first statement of loop()
HandleButtons(up, down) ==
  /\ pc = "handleButtons"
  /\ LET r == handleButtons(up, down)
         newUp == up = LOW /\ upLevel = HIGH
         newDown == down = LOW /\ downLevel = HIGH
         dual == up = LOW /\ down = LOW
         wasDual == upLevel = LOW /\ downLevel = LOW
     IN  /\ upLevel' = up
         /\ downLevel' = down
         /\ upHeld' = HeldLater(up, IF newUp THEN 0 ELSE upHeld, r.delay)
         /\ downHeld' = HeldLater(down, IF newDown THEN 0 ELSE downHeld, r.delay)
         /\ upLongCount' =
              IF up = HIGH \/ r.restart THEN 0
              ELSE Bump(IF newUp THEN 0 ELSE upLongCount, r.upLong)
         /\ downLongCount' =
              IF down = HIGH \/ r.restart THEN 0
              ELSE Bump(IF newDown THEN 0 ELSE downLongCount, r.downLong)
         /\ dualSleepCount' =
              IF ~dual THEN 0
              ELSE Bump(IF wasDual THEN dualSleepCount ELSE 0, r.slept)
         /\ upWake' = IF newUp THEN r.woke ELSE upWake
         /\ downWake' = IF newDown THEN r.woke ELSE downWake
         /\ fgCommanded' = IF r.downLong THEN r.freezeGuardEnabled
                           ELSE fgCommanded
         /\ armedBefore' = IF r.restart THEN r.heaterEnabled ELSE armedBefore
         /\ announced' = r.announce
         /\ dualTick' = IF ~dual THEN FALSE
                        ELSE IF newUp \/ newDown THEN newUp /\ newDown
                        ELSE dualTick
         /\ IF r.restart
              THEN /\ Restart(r.eeprom, Cause("dualhold", NoString, NoString))
                   /\ last' = NoCommand
              ELSE /\ pc' = "checkSetupButton"
                   /\ eeprom' = r.eeprom
                   /\ sinceActivity' = Later(r.sinceActivity, r.delay, ActivityCap)
                   /\ sinceUpStart' = Later(r.sinceUpStart, r.delay, ButtonCap)
                   /\ sinceDownStart' = Later(r.sinceDownStart, r.delay, ButtonCap)
                   /\ sinceLastRead' = Later(sinceLastRead, r.delay, ReadCap)
                   /\ displaySleepMode' = r.displaySleepMode
                   /\ lastUpState' = r.lastUpState
                   /\ lastDownState' = r.lastDownState
                   /\ longPressHandled' = r.longPressHandled
                   /\ targetTemp' = r.targetTemp
                   /\ heaterEnabled' = r.heaterEnabled
                   /\ heaterPin' = r.heaterPin
                   /\ freezeGuardEnabled' = r.freezeGuardEnabled
                   /\ fgEntry' = IF ~freezeGuardEnabled /\ r.freezeGuardEnabled
                                   THEN <<r.heaterEnabled, r.targetTemp>>
                                   ELSE fgEntry
                   /\ evaluated' = FALSE
                   /\ sample' = NoSample
                   /\ last' =
                        IF r.upShort \/ r.downShort \/ r.upLong \/ r.downLong
                          THEN Command("buttons", NoRequest, FALSE, r.upShort,
                                       r.downShort, r.upLong, r.downLong,
                                       Settings(targetTemp, heaterEnabled,
                                                heaterPin, freezeGuardEnabled))
                          ELSE NoCommand
                   /\ UNCHANGED <<setupMode, storedSSID,
                                  storedPassword, currentTemp, humidity,
                                  tempReadings, humReadings, readIndex,
                                  sensorInit, displayBrightness,
                                  heaterOutput, serverBegun, cause,
                                  validSeen>>
  /\ UNCHANGED <<bootLevel, booted>>

\* ------------------------------------------- loop(): the BOOT button
\* lines 277-283: two reads of SETUP_BUTTON_PIN, 50 ms apart, the second
\* made when the first was LOW in normal mode
CheckSetupButton(first, second) ==
  /\ pc = "checkSetupButton"
  /\ LET d == IF ~setupMode /\ first = LOW THEN BOOT_BUTTON_DELAY ELSE 0
     IN  /\ bootLevel' = IF ~setupMode /\ first = LOW THEN second ELSE first
         /\ upHeld' = HeldLater(upLevel, upHeld, d)
         /\ downHeld' = HeldLater(downLevel, downHeld, d)
         /\ IF ~setupMode /\ first = LOW /\ second = LOW
              THEN /\ Restart(EraseIdentity(eeprom),
                              Cause("bootbutton", NoString, NoString))
                   /\ last' = NoCommand
              ELSE /\ pc' = "handleClient"
                   /\ sinceLastRead' = Later(sinceLastRead, d, ReadCap)
                   /\ sinceActivity' = Later(sinceActivity, d, ActivityCap)
                   /\ sinceUpStart' = Later(sinceUpStart, d, ButtonCap)
                   /\ sinceDownStart' = Later(sinceDownStart, d, ButtonCap)
                   /\ evaluated' = FALSE
                   /\ sample' = NoSample
                   /\ last' = NoCommand
                   /\ UNCHANGED <<eeprom, setupMode, storedSSID,
                                  storedPassword, freezeGuardEnabled,
                                  heaterEnabled, targetTemp, currentTemp,
                                  humidity, tempReadings, humReadings,
                                  readIndex, sensorInit, heaterPin,
                                  displaySleepMode, displayBrightness,
                                  lastUpState, lastDownState, longPressHandled,
                                  fgEntry, heaterOutput, serverBegun, cause,
                                  validSeen>>
  /\ upLongCount' = IF pc' = "setup" THEN 0 ELSE upLongCount
  /\ downLongCount' = IF pc' = "setup" THEN 0 ELSE downLongCount
  /\ armedBefore' = IF pc' = "setup" THEN heaterEnabled ELSE armedBefore
  /\ announced' = NoMessage
  /\ UNCHANGED <<upLevel, downLevel, dualSleepCount, upWake, downWake,
                 booted, fgCommanded, dualTick>>

\* ------------------------------------------------------- web handlers
SubmitIdentities == {<<HomeSSID, HomePass>>, <<NoString, NoString>>}
Requests ==
  {Req("target", a, TRUE, d, NoString, NoString) :
       a \in BOOLEAN, d \in TargetArgs}
  \cup {Req("target", TRUE, FALSE, 0, NoString, NoString)}
  \cup {Req(k, a, FALSE, 0, NoString, NoString) :
       k \in {"toggle", "reset", "data", "root"}, a \in BOOLEAN}
  \cup {Req("brightness", a, TRUE, v, NoString, NoString) :
       a \in BOOLEAN, v \in BrightnessArgs}
  \cup {Req("freezeguard", a, TRUE, s, NoString, NoString) :
       a \in BOOLEAN, s \in {0, 1}}
  \cup {Req("wifisetup", a, TRUE, 0, id[1], id[2]) :
       a \in BOOLEAN, id \in SubmitIdentities}
  \cup {Req("wifisetup", TRUE, FALSE, 0, NoString, NoString)}

\* the clamps with the upper one left out
ClampBelowOnly(t) == IF FLt(t, TARGET_MIN) THEN TARGET_MIN ELSE t
\* handleTarget(): targetTemp += change, then the two clamps
ClampTarget(t) ==
  IF FLt(t, TARGET_MIN) THEN TARGET_MIN
  ELSE IF FLt(TARGET_MAX, t) THEN TARGET_MAX
  ELSE t
WebTarget(t, change) == ClampTarget(FAdd(t, Deg(change)))
\* handleTarget() does not look at freezeGuardEnabled
WebTargetAllowed(fg) == TRUE
\* handleBrightness(): (uint8_t)(val * 255.0), val given in tenths
ToBrightness(v) == ((v * 255) \div 10) % 256

\* the handlers registered by enterSetupMode() / setupNormalMode(): a
\* request reaches the handler it is meant for only when that handler is
\* registered (in normal mode "/" is handleRoot, which changes nothing,
\* whatever arguments it is sent); a server never begun serves nothing
Routed(kind) ==
  /\ serverBegun
  /\ IF setupMode THEN kind = "wifisetup"
     ELSE kind \in {"target", "toggle", "reset", "brightness", "data",
                    "freezeguard", "root"}
\* an authentication that accepts every request
AuthAlways(req) == TRUE
\* server.authenticate(www_username, www_password), first in every handler
Authenticated(req) == req.auth

\* a submission that joins the network in place instead of restarting
WiFiSetupHot(req, globals) ==
  IF req.hasArg
    THEN [globals EXCEPT
            !.eeprom = saveWiFiCredentials(globals.eeprom, req.ssid, req.pass),
            !.setupMode = FALSE]
    ELSE globals
\* handleWiFiSetup(), the handler of "/" in setup mode: a request with
\* both arguments is saved and followed by ESP.restart(), any other gets
\* the form; globals is what the handler finds
handleWiFiSetup(req, globals) ==
  IF req.hasArg
    THEN [globals EXCEPT
            !.eeprom = saveWiFiCredentials(globals.eeprom, req.ssid, req.pass),
            !.restart = TRUE,
            !.cause = Cause("submit", req.ssid, req.pass)]
    ELSE globals

\* what server.handleClient() does with one request
handleClient(req) ==
  LET same == [setupMode |-> setupMode,
               targetTemp |-> targetTemp,
               heaterEnabled |-> heaterEnabled,
               heaterPin |-> heaterPin,
               freezeGuardEnabled |-> freezeGuardEnabled,
               displaySleepMode |-> displaySleepMode,
               displayBrightness |-> displayBrightness,
               sinceActivity |-> sinceActivity,
               eeprom |-> eeprom,
               restart |-> FALSE,
               cause |-> NoCause,
               fgSet |-> FALSE,
               announce |-> NoMessage]
  IN  IF req.kind = "none" \/ ~Routed(req.kind) \/ ~Authenticated(req)
        THEN same
      ELSE IF req.kind = "wifisetup"
        THEN handleWiFiSetup(req, same)
      ELSE IF req.kind = "target"
        THEN \* handleTarget()
             IF req.hasArg /\ WebTargetAllowed(freezeGuardEnabled)
               THEN [same EXCEPT !.targetTemp = WebTarget(targetTemp, req.num),
                                 !.announce =
                                   TargetMessage(WebTarget(targetTemp, req.num))]
               ELSE same
      ELSE IF req.kind = "toggle"
        THEN \* handleToggle()
             IF ToggleAllowed(freezeGuardEnabled)
               THEN [same EXCEPT !.heaterEnabled = ~heaterEnabled,
                                 !.heaterPin = IF ~heaterEnabled THEN HIGH ELSE LOW,
                                 !.announce = HeatMessage(~heaterEnabled)]
               ELSE same
      ELSE IF req.kind = "brightness"
        THEN \* handleBrightness()
             IF ~req.hasArg THEN same
             ELSE IF req.num = 0
               THEN [same EXCEPT !.displaySleepMode = TRUE]
               ELSE [same EXCEPT !.displaySleepMode = FALSE,
                                 !.sinceActivity = 0,
                                 !.displayBrightness = ToBrightness(req.num)]
      ELSE IF req.kind = "reset"
        THEN \* handleReset()
             [same EXCEPT !.eeprom = EraseIdentity(eeprom),
                          !.restart = TRUE,
                          !.cause = Cause("webreset", NoString, NoString)]
      ELSE IF req.kind = "freezeguard"
        THEN \* handleFreezeGuard()
             IF req.hasArg
               THEN [same EXCEPT !.freezeGuardEnabled = (req.num = 1),
                                 !.eeprom = saveFreezeGuardState(eeprom, req.num = 1),
                                 !.fgSet = TRUE,
                                 !.announce = GuardMessage(req.num = 1)]
               ELSE same
      ELSE same  \* handleRoot(), handleData(): replies only

\* server.handleClient(): at most one request per loop() iteration
HandleClient(req) ==
  /\ pc = "handleClient"
  /\ LET r == handleClient(req)
     IN  IF r.restart
           THEN /\ Restart(r.eeprom, r.cause)
                /\ upHeld' = HeldLater(upLevel, upHeld, WEB_RESTART_DELAY)
                /\ downHeld' = HeldLater(downLevel, downHeld, WEB_RESTART_DELAY)
           ELSE /\ pc' = "loopBody"
                /\ eeprom' = r.eeprom
                /\ setupMode' = r.setupMode
                /\ targetTemp' = r.targetTemp
                /\ heaterEnabled' = r.heaterEnabled
                /\ heaterPin' = r.heaterPin
                /\ freezeGuardEnabled' = r.freezeGuardEnabled
                /\ displaySleepMode' = r.displaySleepMode
                /\ displayBrightness' = r.displayBrightness
                /\ sinceActivity' = r.sinceActivity
                /\ fgEntry' = IF ~freezeGuardEnabled /\ r.freezeGuardEnabled
                                THEN <<r.heaterEnabled, r.targetTemp>>
                                ELSE fgEntry
                /\ evaluated' = FALSE
                /\ sample' = NoSample
                /\ UNCHANGED <<storedSSID,
                               storedPassword, currentTemp, humidity,
                               tempReadings, humReadings, readIndex,
                               sensorInit, sinceLastRead, sinceUpStart,
                               sinceDownStart, lastUpState, lastDownState,
                               longPressHandled, upHeld, downHeld,
                               heaterOutput, serverBegun, cause, validSeen>>
  /\ last' = IF req.kind = "none" THEN NoCommand
             ELSE Command("client", req,
                          Routed(req.kind) /\ Authenticated(req),
                          FALSE, FALSE, FALSE, FALSE,
                          Settings(targetTemp, heaterEnabled, heaterPin,
                                   freezeGuardEnabled))
  /\ fgCommanded' = LET r == handleClient(req)
                    IN  IF r.fgSet THEN r.freezeGuardEnabled ELSE fgCommanded
  /\ armedBefore' = IF pc' = "setup" THEN heaterEnabled ELSE armedBefore
  /\ announced' = handleClient(req).announce
  /\ upLongCount' = IF pc' = "setup" THEN 0 ELSE upLongCount
  /\ downLongCount' = IF pc' = "setup" THEN 0 ELSE downLongCount
  /\ UNCHANGED <<upLevel, downLevel, bootLevel, dualSleepCount, upWake,
                 downWake, booted, dualTick>>

\* ---------------------------------------------- loop(): the timed body
\* a freeze guard without its dead band
FreezeGuardNoBand(prev, temp) == FLt(temp, FREEZE_GUARD_TEMP)
\* the freeze-guard branch of the control block, lines 356-363
FreezeGuardOn(prev, temp) ==
  IF FLt(temp, FREEZE_GUARD_TEMP) THEN TRUE
  ELSE IF FGe(temp, FREEZE_RELEASE_TEMP) THEN FALSE
  ELSE prev
\* a manual branch that heats only while the display is awake
ManualOnAwake(armed, temp, target) ==
  ~displaySleepMode /\ armed /\ FLt(temp, target)
\* the manual branch of the control block, lines 365-369
ManualOn(armed, temp, target) == armed /\ FLt(temp, target)
\* one channel of the sampler, lines 335-351
StoreReading(buf, idx, value) ==
  IF IsNaN(value) THEN buf ELSE [buf EXCEPT ![idx] = value]
Smoothed(old, buf, value) == IF IsNaN(value) THEN old ELSE Average(buf)
SampleDue(elapsed) == elapsed >= SENSOR_READ_INTERVAL
AutoSleepDue(elapsed) == elapsed > DISPLAY_TIMEOUT

\* lines 287-374 of loop(); seedT/seedH are the seeding reads and t/h the
\* periodic reads (Celsius and percent), used when their branch runs
LoopBody(dt, seedT, seedH, t, h) ==
  /\ pc = "loopBody"
  /\ pc' = "handleButtons"
  /\ LET d == IF ~setupMode /\ sensorInit THEN dt + SENSOR_INIT_DELAY ELSE dt
         due == ~setupMode /\ SampleDue(sinceLastRead)
     IN  /\ sinceLastRead' = Later(IF due THEN 0 ELSE sinceLastRead, d, ReadCap)
         /\ sinceActivity' = Later(sinceActivity, d, ActivityCap)
         /\ sinceUpStart' = Later(sinceUpStart, d, ButtonCap)
         /\ sinceDownStart' = Later(sinceDownStart, d, ButtonCap)
         /\ upHeld' = HeldLater(upLevel, upHeld, d)
         /\ downHeld' = HeldLater(downLevel, downHeld, d)
         /\ evaluated' = due
         /\ sample' = IF due THEN Sample(TRUE, t, h) ELSE NoSample
         /\ last' = NoCommand
         /\ announced' = NoMessage
         /\ validSeen' =
              \/ validSeen
              \/ ~setupMode /\ sensorInit /\ ~IsNaN(seedT)
              \/ due /\ ~IsNaN(t)
  /\ IF setupMode
       THEN UNCHANGED <<tempReadings, humReadings, currentTemp, humidity,
                        sensorInit, readIndex, heaterPin, heaterEnabled,
                        displaySleepMode>>
       ELSE LET due == SampleDue(sinceLastRead)
                tbuf0 == IF sensorInit
                           THEN [i \in 0 .. SAMPLES - 1 |-> ToFahrenheit(seedT)]
                           ELSE tempReadings
                hbuf0 == IF sensorInit
                           THEN [i \in 0 .. SAMPLES - 1 |-> seedH]
                           ELSE humReadings
                tbuf1 == IF due THEN StoreReading(tbuf0, readIndex, ToFahrenheit(t))
                         ELSE tbuf0
                hbuf1 == IF due THEN StoreReading(hbuf0, readIndex, h) ELSE hbuf0
                temp1 == IF due THEN Smoothed(currentTemp, tbuf1, t) ELSE currentTemp
                hum1 == IF due THEN Smoothed(humidity, hbuf1, h) ELSE humidity
            IN  /\ displaySleepMode' =
                     IF ~displaySleepMode /\ AutoSleepDue(sinceActivity)
                       THEN TRUE ELSE displaySleepMode
                /\ tempReadings' = tbuf1
                /\ humReadings' = hbuf1
                /\ currentTemp' = temp1
                /\ humidity' = hum1
                /\ sensorInit' = FALSE
                /\ readIndex' = IF due THEN (readIndex + 1) % SAMPLES ELSE readIndex
                /\ heaterPin' =
                     IF ~due THEN heaterPin
                     ELSE IF freezeGuardEnabled
                       THEN (IF FreezeGuardOn(heaterPin, temp1) THEN HIGH ELSE LOW)
                       ELSE (IF ManualOn(heaterEnabled, temp1, targetTemp)
                               THEN HIGH ELSE LOW)
                /\ heaterEnabled' =
                     IF due /\ freezeGuardEnabled
                       THEN FreezeGuardOn(heaterEnabled, temp1)
                       ELSE heaterEnabled
  /\ UNCHANGED <<eeprom, setupMode, storedSSID,
                 storedPassword, freezeGuardEnabled, targetTemp,
                 displayBrightness, lastUpState, lastDownState,
                 longPressHandled, upLevel, downLevel, bootLevel,
                 upLongCount, downLongCount, dualSleepCount, fgEntry,
                 heaterOutput, serverBegun, upWake, downWake, booted, cause,
                 fgCommanded, armedBefore, dualTick>>

\* ------------------------------------------------------ specifications
\* Bookkeeping of a step: what it consumed of the exploration budget
Account(newEdges, newReqs, newQuiet, newTicks) ==
  /\ boots' = IF pc' = "setup" THEN boots + 1 ELSE boots
  /\ edges' = edges + newEdges
  /\ reqs' = reqs + newReqs
  /\ quiet' = IF newEdges + newReqs > 0 \/ pc' = "setup" THEN 0
              ELSE quiet + newQuiet
  /\ ticks' = IF pc' = "setup" THEN 0 ELSE ticks + newTicks

\* a device that has an identity stored and whose network is in range
StoredEeproms ==
  {saveFreezeGuardState(saveWiFiCredentials(BlankEeprom, HomeSSID, HomePass), fg) :
     fg \in BOOLEAN}
InitStored ==
  /\ pc = "setup"
  /\ boots = 0
  /\ reqs = 0
  /\ edges = 0
  /\ quiet = 0
  /\ ticks = 0
  /\ eeprom \in StoredEeproms
  /\ RamInit
  /\ HistInit

\* steps shared by the specifications
Boot ==
  /\ boots <= MaxBoots
  /\ Setup(ConnectImmediately, TRUE)
  /\ Account(0, 0, 0, 0)
SetupButton ==
  /\ CheckSetupButton(HIGH, HIGH)
  /\ Account(0, 0, 0, 0)

\* Spec: normal operation under button presses and web commands
Buttons ==
  \E up \in Levels, down \in Levels :
    LET n == Changes(up, upLevel) + Changes(down, downLevel)
    IN  /\ quiet <= MaxQuiet
        /\ edges + n <= MaxEdges
        /\ edges + n + reqs <= MaxInputs
        /\ HandleButtons(up, down)
        /\ Account(n, 0, 0, 0)
Client ==
  \E req \in Requests \cup {NoRequest} :
    LET n == IF req.kind = "none" THEN 0 ELSE 1
    IN  /\ reqs + n <= MaxReq
        /\ edges + reqs + n <= MaxInputs
        /\ HandleClient(req)
        /\ Account(0, n, 0, 0)
Body ==
  \E dt \in LoopTimes, t \in TempInputs, h \in HumInputs :
    /\ LoopBody(dt, t, h, t, h)
    /\ Account(0, 0, 1, 0)

Next == Boot \/ Buttons \/ SetupButton \/ Client \/ Body

Spec == InitStored /\ [][Next]_vars

\* SpecHeat: the heater control under changing temperatures; the buttons
\* are left alone, every loop() iteration is long enough to sample, and
\* the web client switches the regime and toggles the latch
HeatTimes == {SENSOR_READ_INTERVAL}
HeatTemps == {Deg(-20), Deg(4), Deg(25)}
HeatRequests ==
  {Req("freezeguard", TRUE, TRUE, s, NoString, NoString) : s \in {0, 1}}
  \cup {Req("toggle", TRUE, FALSE, 0, NoString, NoString)}
ButtonsIdle ==
  /\ HandleButtons(HIGH, HIGH)
  /\ Account(0, 0, 0, 0)
ClientHeat ==
  \E req \in HeatRequests \cup {NoRequest} :
    LET n == IF req.kind = "none" THEN 0 ELSE 1
    IN  /\ reqs + n <= MaxHeatReq
        /\ HandleClient(req)
        /\ Account(0, n, 0, 0)
BodyHeat ==
  \E dt \in HeatTimes, t \in HeatTemps, h \in HumInputs :
    /\ ticks < MaxHeatTicks
    /\ LoopBody(dt, t, h, t, h)
    /\ Account(0, 0, 0, 1)

NextHeat == Boot \/ ButtonsIdle \/ SetupButton \/ ClientHeat \/ BodyHeat

SpecHeat == InitStored /\ [][NextHeat]_vars

\* SpecButtons: the button classifier; the web client can put the display
\* to sleep
SleepRequests == {Req("brightness", TRUE, TRUE, 0, NoString, NoString)}
ButtonsPress ==
  \E up \in Levels, down \in Levels :
    LET n == Changes(up, upLevel) + Changes(down, downLevel)
    IN  /\ quiet <= MaxHoldQuiet
        /\ edges + n <= MaxPressEdges
        /\ HandleButtons(up, down)
        /\ Account(n, 0, 0, 0)
ClientSleep ==
  \E req \in SleepRequests \cup {NoRequest} :
    LET n == IF req.kind = "none" THEN 0 ELSE 1
    IN  /\ reqs + n <= MaxSleepReq
        /\ HandleClient(req)
        /\ Account(0, n, 0, 0)

NextButtons == Boot \/ ButtonsPress \/ SetupButton \/ ClientSleep \/ Body

SpecButtons == InitStored /\ [][NextButtons]_vars

\* SpecHold: holds of both buttons.  loop() runs for ever (weak fairness).
\* A run is followed for MaxIdle iterations after the last level change
\* while a button is released, and without limit while both are held
ButtonsHold ==
  \E up \in Levels, down \in Levels :
    LET n == Changes(up, upLevel) + Changes(down, downLevel)
    IN  /\ edges + n <= MaxHoldEdges
        /\ (up = HIGH \/ down = HIGH) => quiet <= MaxIdle
        /\ HandleButtons(up, down)
        /\ Account(n, 0, 0, 0)
BodyHold ==
  \E dt \in LoopTimes, t \in TempInputs, h \in HumInputs :
    /\ LoopBody(dt, t, h, t, h)
    /\ Account(0, 0, IF quiet <= MaxIdle THEN 1 ELSE 0, 0)

NextHold == Boot \/ ButtonsHold \/ SetupButton \/ ClientSleep \/ BodyHold

SpecHold == InitStored /\ [][NextHold]_vars /\ WF_vars(NextHold)

\* SpecBoot: boots from every kind of stored identity, with the network in
\* or out of range and the display found or not; the client submits
\* identities and asks for a factory reset, and the buttons can be held
LongSSID == [i \in 1 .. SSID_MAX_LENGTH |-> 97]
LongPass == [i \in 1 .. PASS_MAX_LENGTH |-> 98]
ShortSSID == <<120>>
BootIdentities ==
  {<<HomeSSID, HomePass>>, <<LongSSID, LongPass>>, <<ShortSSID, HomePass>>,
   <<NoString, NoString>>}
BootEeproms ==
  {saveFreezeGuardState(saveWiFiCredentials(BlankEeprom, id[1], id[2]), fg) :
     id \in {<<HomeSSID, HomePass>>, <<ShortSSID, HomePass>>,
             <<NoString, NoString>>},
     fg \in BOOLEAN}
BootDelays == {ConnectImmediately, MAX_ATTEMPTS, ConnectNever}
BootRequests ==
  {Req("wifisetup", a, TRUE, 0, id[1], id[2]) :
     a \in BOOLEAN, id \in BootIdentities}
  \cup {Req("wifisetup", TRUE, FALSE, 0, NoString, NoString)}
  \cup {Req("reset", a, FALSE, 0, NoString, NoString) : a \in BOOLEAN}
InitBoot ==
  /\ pc = "setup"
  /\ boots = 0
  /\ reqs = 0
  /\ edges = 0
  /\ quiet = 0
  /\ ticks = 0
  /\ eeprom \in BootEeproms
  /\ RamInit
  /\ HistInit
BootAny ==
  \E after \in BootDelays, displayOk \in BOOLEAN :
    /\ boots <= MaxRestarts
    /\ Setup(after, displayOk)
    /\ Account(0, 0, 0, 0)
ButtonsBoot ==
  \E up \in Levels, down \in Levels :
    LET n == Changes(up, upLevel) + Changes(down, downLevel)
    IN  /\ quiet <= MaxBootQuiet
        /\ edges + n <= MaxBootEdges
        /\ HandleButtons(up, down)
        /\ Account(n, 0, 0, 0)
SetupButtonAny ==
  \E first \in Levels, second \in Levels :
    LET n == Changes(first, bootLevel) + Changes(second, first)
    IN  /\ edges + n <= MaxBootEdges
        /\ CheckSetupButton(first, second)
        /\ Account(n, 0, 0, 0)
ClientBoot ==
  \E req \in BootRequests \cup {NoRequest} :
    LET n == IF req.kind = "none" THEN 0 ELSE 1
    IN  /\ reqs + n <= MaxBootReq
        /\ HandleClient(req)
        /\ Account(0, n, 0, 0)

NextBoot == BootAny \/ ButtonsBoot \/ SetupButtonAny \/ ClientBoot \/ Body

SpecBoot == InitBoot /\ [][NextBoot]_vars

\* SpecSensor: a sensor whose reads can fail (readTemperature() returns
\* NaN), seen through the telemetry; the buttons are left alone
SensorTemps == {NaN, Deg(4), Deg(25)}
SensorHums == {NaN, Deg(40)}
DataRequests == {Req("data", TRUE, FALSE, 0, NoString, NoString)}
ClientData ==
  \E req \in DataRequests \cup {NoRequest} :
    LET n == IF req.kind = "none" THEN 0 ELSE 1
    IN  /\ reqs + n <= MaxSensorReq
        /\ HandleClient(req)
        /\ Account(0, n, 0, 0)
BodySensor ==
  \E dt \in HeatTimes, seedT \in SensorTemps, t \in SensorTemps,
     seedH \in HumInputs, h \in SensorHums :
    /\ ticks < MaxSensorTicks
    /\ LoopBody(dt, seedT, seedH, t, h)
    /\ Account(0, 0, 0, 1)

NextSensor == Boot \/ ButtonsIdle \/ SetupButton \/ ClientData \/ BodySensor

SpecSensor == InitStored /\ [][NextSensor]_vars

\* SpecSleep: the display going to sleep and waking up (inactivity timeout,
\* /brightness, dual-button hold, button wake) in a cold room, where the
\* heater is on whenever it is armed.  loop() is followed through the
\* whole inactivity timeout
NapTimes == {LONG_PRESS_MS}
NapTemps == {Deg(-20)}
NapRequests ==
  {Req("brightness", TRUE, TRUE, v, NoString, NoString) : v \in BrightnessArgs}
  \cup {Req("toggle", TRUE, FALSE, 0, NoString, NoString)}
TimedOut == sinceActivity > DISPLAY_TIMEOUT
ButtonsNap ==
  \E up \in Levels, down \in Levels :
    LET n == Changes(up, upLevel) + Changes(down, downLevel)
    IN  /\ edges + n <= MaxNapEdges
        /\ n > 0 => (quiet <= MaxNapQuiet \/ TimedOut)
        /\ HandleButtons(up, down)
        /\ Account(n, 0, 0, 0)
ClientNap ==
  \E req \in NapRequests \cup {NoRequest} :
    LET n == IF req.kind = "none" THEN 0 ELSE 1
    IN  /\ reqs + n <= MaxNapReq
        /\ n > 0 => (quiet <= MaxNapQuiet \/ TimedOut)
        /\ HandleClient(req)
        /\ Account(0, n, 0, 0)
BodyNap ==
  \E dt \in NapTimes, t \in NapTemps, h \in HumInputs :
    /\ LoopBody(dt, t, h, t, h)
    /\ Account(0, 0, IF quiet <= MaxNapQuiet THEN 1 ELSE 0, 0)

NextSleep == Boot \/ ButtonsNap \/ SetupButton \/ ClientNap \/ BodyNap

SpecSleep == InitStored /\ [][NextSleep]_vars

\* SpecWake: holds of both buttons around a sleeping display: the dual
\* hold or the web client puts the display to sleep, the buttons are
\* released and pressed again while it sleeps; one loop() iteration takes
\* a second
WakeTimes == {LONG_PRESS_MS}
ButtonsWake ==
  \E up \in Levels, down \in Levels :
    LET n == Changes(up, upLevel) + Changes(down, downLevel)
    IN  /\ quiet <= MaxWakeQuiet
        /\ edges + n + 2 * reqs <= MaxWakeInputs
        /\ HandleButtons(up, down)
        /\ Account(n, 0, 0, 0)
ClientWake ==
  \E req \in SleepRequests \cup {NoRequest} :
    LET n == IF req.kind = "none" THEN 0 ELSE 1
    IN  /\ reqs + n <= MaxSleepReq
        /\ edges + 2 * (reqs + n) <= MaxWakeInputs
        /\ HandleClient(req)
        /\ Account(0, n, 0, 0)
BodyWake ==
  \E dt \in WakeTimes, t \in TempInputs, h \in HumInputs :
    /\ LoopBody(dt, t, h, t, h)
    /\ Account(0, 0, 1, 0)

NextWake == Boot \/ ButtonsWake \/ SetupButton \/ ClientWake \/ BodyWake

SpecWake == InitStored /\ [][NextWake]_vars

\* ------------------------------------------------- properties of Spec
\* the last step served a dispatched web request of this kind
Served(kind) ==
  last.step = "client" /\ last.req.kind = kind /\ last.served
\* a loop() iteration has just ended in normal mode, Manual regime
ManualTickEnd ==
  /\ pc = "handleButtons"
  /\ ~setupMode
  /\ ~sensorInit
  /\ ~freezeGuardEnabled

\* C1: in the Manual regime, at the end of every loop() iteration the heater
\* output is on if and only if the armed latch is set and the smoothed
\* temperature is strictly below targetTemp.
C1_ManualOutputEveryTick ==
  ManualTickEnd =>
    (heaterPin = HIGH <=> (heaterEnabled /\ FLt(currentTemp, targetTemp)))

C4_TargetFrozenUnderFreezeGuard ==
  (/\ last.pre.freezeGuardEnabled
   /\ IF last.step = "buttons" THEN last.upShort \/ last.downShort
      ELSE Served("target") /\ last.req.hasArg)
    => targetTemp = last.pre.targetTemp

\* C5: while FreezeGuard is active a toggle of the armed latch leaves the
\* latch and the heater output unchanged, whether it comes from an Up long
\* press or from a /toggle request.
C5_ToggleNoOpUnderFreezeGuard ==
  (/\ last.pre.freezeGuardEnabled
   /\ IF last.step = "buttons" THEN last.upLong ELSE Served("toggle"))
    => /\ heaterEnabled = last.pre.heaterEnabled
       /\ heaterPin = last.pre.heaterPin
\* a /toggle request served under FreezeGuard
C5_ToggleServedUnderFreezeGuard ==
  /\ Served("toggle")
  /\ last.pre.freezeGuardEnabled
  /\ freezeGuardEnabled

\* C15: a request that fails authentication changes nothing: targetTemp,
\* heaterEnabled, the heater pin, the regime flag, the display sleep state
\* and brightness, the activity time and the persisted store are after it
\* as they were before, for every handler, and the device does not restart.
C15_RejectedRequestChangesNothing ==
  [][(pc = "handleClient" /\ last'.step = "client" /\ ~last'.req.auth) =>
       /\ pc' = "loopBody"
       /\ UNCHANGED <<targetTemp, heaterEnabled, heaterPin,
                      freezeGuardEnabled, displaySleepMode,
                      displayBrightness, sinceActivity, eeprom>>]_vars
\* a /reset request was rejected in normal mode and the device runs on
C15_ResetRejected ==
  /\ last.step = "client"
  /\ last.req.kind = "reset"
  /\ ~last.req.auth
  /\ ~setupMode
  /\ pc = "loopBody"

\* C18: once setup() has loaded it, the persisted freeze-guard flag equals
\* freezeGuardEnabled in every state: a Down long press and a /freezeguard
\* request persist the regime in the step that changes it, and after a
\* restart the regime is the one last commanded.
C18_RegimePersisted ==
  (pc # "setup" /\ booted.display) =>
    /\ loadFreezeGuardState(eeprom) = freezeGuardEnabled
    /\ freezeGuardEnabled = fgCommanded
\* a Down long press has just enabled FreezeGuard and persisted it
C18_LongPressPersisted ==
  /\ last.step = "buttons"
  /\ last.downLong
  /\ ~last.pre.freezeGuardEnabled
  /\ freezeGuardEnabled
  /\ loadFreezeGuardState(eeprom)

\* the reply of handleData(): the JSON fields that report the heater
\* (the flags print true / false)
JsonText(s) == [kind |-> "string", text |-> s, tenths |-> 0]
JsonNumber(x) == [kind |-> "number", text |-> "", tenths |-> Tenths(x)]
FaultSentinel == JsonText("TEMP SENSOR FAULT")
BoolText(b) == IF b THEN "true" ELSE "false"
handleData ==
  [currentTemp |-> IF IsNaN(currentTemp) THEN FaultSentinel
                   ELSE JsonNumber(currentTemp),
   targetTemp |-> JsonNumber(targetTemp),
   heaterEnabled |-> BoolText(heaterEnabled),
   freezeGuardEnabled |-> BoolText(freezeGuardEnabled),
   displaySleep |-> BoolText(displaySleepMode)]

\* C20: the heater flag of the telemetry reply says whether the heater
\* output is on, in every state in which /data is served, in both regimes.
C20_TelemetryHeaterIsOutput ==
  Served("data") =>
    (handleData.heaterEnabled = "true" <=> heaterPin = HIGH)

\* C21: the armed latch survives a restart: when heaterEnabled was set at
\* the time the device restarted, it is set when the setup() that follows
\* has run.
C21_ArmedLatchPersisted ==
  [][(pc = "setup" /\ pc' # "setup" /\ armedBefore) => heaterEnabled']_vars

\* C22: the level of the heater pin changes only in a loop() iteration that
\* ran the periodic control block (a restart, which releases the pin,
\* aside): neither handleButtons() nor a web handler switches it.
C22_OutputOnlyInEvaluation ==
  [][(heaterPin' # heaterPin /\ pc' # "setup") => evaluated']_vars

\* C24: every step of loop() that changes the heater pin, targetTemp or the
\* regime raises a state-change announcement, the periodic control block
\* included.
C24_EveryChangeAnnounced ==
  [][(/\ pc # "setup"
      /\ pc' # "setup"
      /\ \/ heaterPin' # heaterPin
         \/ targetTemp' # targetTemp
         \/ freezeGuardEnabled' # freezeGuardEnabled)
       => announced' # NoMessage]_vars

\* --------------------------------------------- properties of SpecHeat
\* C2: in the FreezeGuard regime a control evaluation that sees a smoothed
\* temperature below 38.0 leaves the heater on, one that sees 40.0 or more
\* leaves it off, and one that sees a value in [38.0, 40.0) leaves it as it
\* was; while the regime stays FreezeGuard the heater goes off only in an
\* evaluation that sees 40.0 or more.
C2_FreezeGuardHysteresis ==
  /\ [][(freezeGuardEnabled /\ evaluated') =>
          heaterPin' = (IF FLt(currentTemp', FREEZE_GUARD_TEMP) THEN HIGH
                        ELSE IF FGe(currentTemp', FREEZE_RELEASE_TEMP) THEN LOW
                        ELSE heaterPin)]_vars
  /\ [][(/\ freezeGuardEnabled
         /\ freezeGuardEnabled'
         /\ pc' # "setup"
         /\ heaterPin = HIGH
         /\ heaterPin' = LOW) =>
          (evaluated' /\ FGe(currentTemp', FREEZE_RELEASE_TEMP))]_vars
\* an evaluation inside the dead band that kept the heater on
C2_HeldOnInBand ==
  /\ freezeGuardEnabled
  /\ evaluated
  /\ FGe(currentTemp, FREEZE_GUARD_TEMP)
  /\ FLt(currentTemp, FREEZE_RELEASE_TEMP)
  /\ heaterPin = HIGH

\* C6: when FreezeGuard is disabled, heaterEnabled and targetTemp have the
\* values they had when it was enabled, whatever control evaluations ran in
\* between.
C6_SettingsSurviveFreezeGuard ==
  (/\ last.pre.freezeGuardEnabled
   /\ ~freezeGuardEnabled
   /\ IF last.step = "buttons" THEN last.downLong ELSE Served("freezeguard"))
    => /\ heaterEnabled = fgEntry[1]
       /\ targetTemp = fgEntry[2]

\* ------------------------------------------ properties of SpecButtons
\* C7: a hold of a button that lasted at least LONG_PRESS_MS has run that
\* button's long-press action exactly once when the release is read,
\* whatever the other button did meanwhile.
C7_LongPressExactlyOnce ==
  [][/\ (upLevel = LOW /\ upLevel' = HIGH /\ upHeld >= LONG_PRESS_MS)
          => upLongCount = 1
     /\ (downLevel = LOW /\ downLevel' = HIGH /\ downHeld >= LONG_PRESS_MS)
          => downLongCount = 1]_vars

\* C8: handleButtons() toggles heaterEnabled or the regime only for a button
\* that has been down for at least LONG_PRESS_MS, and the release of a hold
\* whose long-press action ran does not change targetTemp.
C8_ShortAndLongExclusive ==
  /\ [](last.step = "buttons" =>
          /\ (last.upLong /\ heaterEnabled # last.pre.heaterEnabled)
               => upHeld >= LONG_PRESS_MS
          /\ last.downLong => downHeld >= LONG_PRESS_MS)
  /\ [][last'.step = "buttons" =>
          /\ (last'.upShort /\ ~freezeGuardEnabled) => upLongCount = 0
          /\ (last'.downShort /\ ~freezeGuardEnabled) => downLongCount = 0]_vars

\* C9: during one continuous hold of both buttons the display is put to
\* sleep by the hold at most once.
C9_DualHoldSleepsOnce == dualSleepCount <= 1

\* C11: a press of a button that woke the display from sleep is not
\* classified as a short or a long press: it changes none of targetTemp,
\* heaterEnabled and freezeGuardEnabled, however long the button stays down
\* after the wake delay.
C11_WakePressNotClassified ==
  last.step = "buttons" =>
    /\ (upWake /\ last.upShort /\ ~last.downShort)
         => targetTemp = last.pre.targetTemp
    /\ (upWake /\ last.upLong) => heaterEnabled = last.pre.heaterEnabled
    /\ (downWake /\ last.downShort /\ ~last.upShort)
         => targetTemp = last.pre.targetTemp
    /\ (downWake /\ last.downLong)
         => freezeGuardEnabled = last.pre.freezeGuardEnabled

\* --------------------------------------------- properties of SpecHold
\* the identity has been erased and the device restarted
Erased == loadSSID(eeprom) = NoString /\ loadPassword(eeprom) = NoString
DualReset == pc = "setup" /\ boots >= 1 /\ Erased
BothHeldFor(ms) ==
  /\ upLevel = LOW
  /\ downLevel = LOW
  /\ upHeld >= ms
  /\ downHeld >= ms

\* C10: once both buttons have been held for WIFI_RESET_MS each, the
\* identity is erased and the device restarts unless the hold ends first;
\* this includes holds that put the display to sleep on the way.
C10_DualHoldResets ==
  BothHeldFor(WIFI_RESET_MS) ~> (DualReset \/ upLevel = HIGH \/ downLevel = HIGH)
\* a restart with the identity erased, in a hold of both buttons that put
\* the display to sleep on the way
C10_ResetAfterSleep ==
  /\ DualReset
  /\ BothHeldFor(WIFI_RESET_MS)
  /\ dualSleepCount >= 1

\* --------------------------------------------- properties of SpecBoot
\* setup() has run to its end with the display found
BootDone == pc # "setup" /\ booted.display
\* the name persisted in the store
PersistedSSID == loadSSID(eeprom)

\* C12: a boot with sensor and display found ends in one mode:
\* Provisioning when the stored name has fewer than 2 characters, otherwise
\* Normal when the association succeeded and Provisioning when 30 attempts
\* have failed; no boot makes more than 30 attempts.
C12_BootModeDecision ==
  BootDone =>
    /\ serverBegun
    /\ booted.attempts <= MAX_ATTEMPTS
    /\ Len(PersistedSSID) < 2 => (setupMode /\ booted.attempts = 0)
    /\ (Len(PersistedSSID) >= 2 /\ booted.linked) => ~setupMode
    /\ (Len(PersistedSSID) >= 2 /\ ~booted.linked)
         => (setupMode /\ booted.attempts = MAX_ATTEMPTS)
\* a boot that fell back to Provisioning after 30 failed attempts
C12_FallbackAfterRetries ==
  /\ BootDone
  /\ Len(storedSSID) >= 2
  /\ ~booted.linked
  /\ booted.attempts = MAX_ATTEMPTS
  /\ setupMode

\* the last step served a submission carrying both name and secret
Submitted == Served("wifisetup") /\ last.req.hasArg

\* C13: in Provisioning a submission carrying name and secret is persisted
\* and the device restarts; after the next boot the loaded identity is the
\* submitted one (name up to 32 bytes, secret up to 64), and the device is
\* in Normal mode when the association succeeded.
C13_SubmissionPersistsAndRestarts ==
  /\ Submitted => (pc = "setup" /\ cause = Cause("submit", last.req.ssid, last.req.pass))
  /\ cause.why = "submit" =>
       /\ loadSSID(eeprom) = cause.ssid
       /\ loadPassword(eeprom) = cause.pass
       /\ BootDone =>
            /\ storedSSID = cause.ssid
            /\ storedPassword = cause.pass
            /\ (Len(cause.ssid) >= 2 /\ booted.linked) => ~setupMode
\* Normal mode reached with a submitted identity of full length
C13_NormalAfterSubmission ==
  /\ BootDone
  /\ cause.why = "submit"
  /\ storedSSID = LongSSID
  /\ storedPassword = LongPass
  /\ ~setupMode

\* the identity has been erased
IdentityErased == loadSSID(eeprom) = NoString /\ loadPassword(eeprom) = NoString

\* C14: every factory-reset trigger (reset request, BOOT button read LOW
\* twice in normal mode, hold of both buttons recognised as a reset) erases
\* the identity and restarts, and the next boot enters Provisioning.
C14_FactoryResetReprovisions ==
  /\ [](/\ Served("reset") => (pc = "setup" /\ cause.why = "webreset")
        /\ cause.why \in ResetCauses =>
             /\ IdentityErased
             /\ BootDone => (setupMode /\ storedSSID = NoString))
  /\ [][(pc = "checkSetupButton" /\ ~setupMode /\ bootLevel' = LOW)
          => (pc' = "setup" /\ cause'.why = "bootbutton")]_vars
\* Provisioning entered by the boot that followed a dual-button reset
C14_ProvisioningAfterDualHold ==
  /\ BootDone
  /\ cause.why = "dualhold"
  /\ setupMode
  /\ serverBegun

\* C26: the mode entered by setup() stays for the whole run: no step of
\* loop() changes setupMode except a restart, so Provisioning is left only
\* by restarting and Normal is left only by restarting.
C26_ModeFixedForRun ==
  [][(pc # "setup" /\ pc' # "setup") => setupMode' = setupMode]_vars
\* Provisioning goes on after a request for the form has been served
C26_ProvisioningGoesOn ==
  /\ setupMode
  /\ pc = "loopBody"
  /\ Served("wifisetup")
  /\ ~last.req.hasArg

\* the bytes of the store that hold the identity
IdentityRegion(e) == [a \in SSID_START .. FREEZE_GUARD_ADDR - 1 |-> e[a]]

\* C28: the identity and the freeze-guard flag are stored apart.  A step
\* that writes or erases the identity (a submission or a factory reset,
\* each ending in a restart) leaves the flag byte as it was, and every
\* other step, the Down long press and /freezeguard among them, leaves the
\* bytes of the name and the secret as they were.
C28_RegionsIndependent ==
  [][/\ (pc # "setup" /\ pc' = "setup")
          => eeprom'[FREEZE_GUARD_ADDR] = eeprom[FREEZE_GUARD_ADDR]
     /\ pc' # "setup" => IdentityRegion(eeprom') = IdentityRegion(eeprom)]_vars
\* a secret of full length has been stored next to a set flag
C28_FlagKeptBySubmission ==
  /\ pc = "setup"
  /\ cause.why = "submit"
  /\ loadPassword(eeprom) = LongPass
  /\ loadFreezeGuardState(eeprom)

\* C19: when display.begin() fails at boot the rest of setup() still runs:
\* the heater pin is an output driven LOW, the freeze-guard flag and the
\* identity are loaded, and a mode is entered.
C19_HeadlessBoot ==
  (pc # "setup" /\ ~booted.display) =>
    /\ heaterOutput
    /\ heaterPin = LOW
    /\ freezeGuardEnabled = loadFreezeGuardState(eeprom)
    /\ storedSSID = loadSSID(eeprom)
    /\ storedPassword = loadPassword(eeprom)
    /\ serverBegun

\* C25: in Provisioning the buttons control nothing: no call of
\* handleButtons() changes heaterEnabled, targetTemp, the regime or the
\* heater pin, and the pin is LOW from the boot to the restart.
C25_ProvisioningButtonsInert ==
  /\ [](setupMode => heaterPin = LOW)
  /\ [][(pc = "handleButtons" /\ setupMode /\ pc' # "setup") =>
          UNCHANGED <<heaterEnabled, targetTemp, freezeGuardEnabled,
                      heaterPin>>]_vars

\* ------------------------------------------- properties of SpecSensor
\* C17: while the seeding read and every later read of this boot have been
\* invalid, /data reports the fault sentinel as temperature; it reports a
\* number only once a read has returned a temperature.
C17_FaultSentinelUntilValid ==
  (Served("data") /\ ~sensorInit /\ ~validSeen)
    => handleData.currentTemp = FaultSentinel

\* C23: after seeding, every sampling tick leaves in currentTemp the mean
\* of the 10 temperature slots and advances readIndex by one modulo 10; a
\* tick whose reading is invalid leaves that channel's slots and its
\* smoothed value as they were.
C23_SmoothedIsBufferMean ==
  [][(pc = "loopBody" /\ ~sensorInit /\ sample'.taken) =>
       /\ currentTemp' = Average(tempReadings')
       /\ readIndex' = (readIndex + 1) % SAMPLES
       /\ IsNaN(sample'.t) =>
            (tempReadings' = tempReadings /\ currentTemp' = currentTemp)
       /\ IsNaN(sample'.h) =>
            (humReadings' = humReadings /\ humidity' = humidity)]_vars

\* -------------------------------------------- properties of SpecSleep
\* C16: display sleep does not influence heater control.  A step that sets
\* or clears displaySleepMode (inactivity timeout, /brightness, dual-button
\* sleep, button wake) and classifies no button gesture leaves the regime,
\* heaterEnabled and targetTemp as they were, and the heater pin too unless
\* the control block ran in it; the control block runs whenever a sample
\* is due and leaves on the pin what the regime, the latch, the target and
\* the smoothed temperature give, whether the display sleeps or not.
C16_SleepLeavesHeaterAlone ==
  /\ [][(/\ displaySleepMode' # displaySleepMode
         /\ pc' # "setup"
         /\ last'.step # "buttons") =>
          /\ freezeGuardEnabled' = freezeGuardEnabled
          /\ targetTemp' = targetTemp
          /\ evaluated' \/ (heaterPin' = heaterPin /\ heaterEnabled' = heaterEnabled)
          /\ ~freezeGuardEnabled => heaterEnabled' = heaterEnabled]_vars
  /\ [][(pc = "loopBody" /\ ~setupMode) =>
          /\ evaluated' = (sinceLastRead >= SENSOR_READ_INTERVAL)
          /\ evaluated' =>
               heaterPin' =
                 IF freezeGuardEnabled
                   THEN (IF FLt(currentTemp', FREEZE_GUARD_TEMP) THEN HIGH
                         ELSE IF FGe(currentTemp', FREEZE_RELEASE_TEMP) THEN LOW
                         ELSE heaterPin)
                 ELSE (IF heaterEnabled /\ FLt(currentTemp', targetTemp)
                         THEN HIGH ELSE LOW)]_vars
\* the display has timed out and the armed heater was switched on by an
\* evaluation that ran while it slept
C16_HeatingWhileTimedOut ==
  /\ displaySleepMode
  /\ TimedOut
  /\ ~freezeGuardEnabled
  /\ evaluated
  /\ heaterEnabled
  /\ heaterPin = HIGH

\* --------------------------------------------- properties of SpecWake
\* C27: the dual-button reset runs only at a poll before which both buttons
\* have been read LOW, poll after poll, for WIFI_RESET_MS each; a shorter
\* press of the two buttons never restarts the device, a press that wakes
\* the display included.
C27_ResetOnlyAfterFullHold ==
  [][(pc = "handleButtons" /\ pc' = "setup") => BothHeldFor(WIFI_RESET_MS)]_vars

\* C29: while both buttons are held since one and the same poll, no call
\* of handleButtons() runs the Down long press: the shared latch is taken
\* by Up, which is checked first, and the regime is after every poll of the
\* hold what it was before it.
C29_DualHoldRunsUpOnly ==
  (last.step = "buttons" /\ dualTick) =>
    /\ ~last.downLong
    /\ freezeGuardEnabled = last.pre.freezeGuardEnabled

====
